---- MODULE Spec2Model ----
(***************************************************************************)
(* Model of the continuity handler of /api/ask (src/api/ask.js 395-996):   *)
(* small talk, the model-token index, entity extraction, hybrid retrieval, *)
(* the passability gate, the reply guard and the session store.            *)
(*                                                                         *)
(* Texts are TLA+ strings handled character by character (Len, SubSeq,     *)
(* \o).  Non-ASCII characters of the source (emoji, the typographic        *)
(* apostrophe, the bracket of the context blocks) are written in ASCII.    *)
(* Scores are in hundredths (0.16 is 16); the embedding vectors of the     *)
(* model have integer norms, so every cosine is an exact multiple of 0.04. *)
(***************************************************************************)
EXTENDS Integers, Sequences, FiniteSets, TLC

(***************************************************************************)
(* Characters and strings                                                  *)
(***************************************************************************)
LowerAlphabet == "abcdefghijklmnopqrstuvwxyz"
UpperAlphabet == "ABCDEFGHIJKLMNOPQRSTUVWXYZ"
DigitString == "0123456789"

Char(s, i) == SubSeq(s, i, i)
CharsOf(s) == { Char(s, i) : i \in 1..Len(s) }

Letters == CharsOf(LowerAlphabet)
Digits == CharsOf(DigitString)
\* \w of a JavaScript regular expression, on lower-cased text
WordChars == Letters \cup Digits \cup {"_"}
\* [\w.+-]
ModelChars == WordChars \cup {".", "+", "-"}
\* \s
Whitespace == {" ", "\n", "\t"}

UpperLetters == CharsOf(UpperAlphabet)
LowerCharMap ==
  [ c \in UpperLetters |->
      Char(LowerAlphabet, CHOOSE i \in 1..26 : Char(UpperAlphabet, i) = c) ]
ToLowerChar(c) == IF c \in UpperLetters THEN LowerCharMap[c] ELSE c

\* The character-wise rewrites split the string in halves, which keeps the
\* recursion shallow on long texts.
Half(s) == Len(s) \div 2

RECURSIVE toLowerCase(_)
toLowerCase(s) ==
  IF Len(s) <= 1 THEN ToLowerChar(s)
  ELSE toLowerCase(SubSeq(s, 1, Half(s))) \o toLowerCase(SubSeq(s, Half(s) + 1, Len(s)))

RECURSIVE ReplaceChars(_, _, _)
\* s.replace(/[cs]/g, by)
ReplaceChars(s, cs, by) ==
  IF Len(s) <= 1 THEN (IF s \in cs THEN by ELSE s)
  ELSE ReplaceChars(SubSeq(s, 1, Half(s)), cs, by)
       \o ReplaceChars(SubSeq(s, Half(s) + 1, Len(s)), cs, by)

\* s.replace(/[cs]/g, "")
RemoveChars(s, cs) == ReplaceChars(s, cs, "")

RECURSIVE KeepChars(_, _)
\* s.replace(/[^cs]/g, "")
KeepChars(s, cs) ==
  IF Len(s) <= 1 THEN (IF s \in cs THEN s ELSE "")
  ELSE KeepChars(SubSeq(s, 1, Half(s)), cs) \o KeepChars(SubSeq(s, Half(s) + 1, Len(s)), cs)

RECURSIVE TrimLeft(_, _)
TrimLeft(s, cs) ==
  IF s # "" /\ Char(s, 1) \in cs THEN TrimLeft(SubSeq(s, 2, Len(s)), cs) ELSE s

RECURSIVE TrimRight(_, _)
TrimRight(s, cs) ==
  IF s # "" /\ Char(s, Len(s)) \in cs THEN TrimRight(SubSeq(s, 1, Len(s) - 1), cs) ELSE s

\* String.prototype.trim
trim(s) == TrimRight(TrimLeft(s, Whitespace), Whitespace)

\* String.prototype.includes
includes(s, sub) ==
  \E i \in 0..(Len(s) - Len(sub)) : SubSeq(s, i + 1, i + Len(sub)) = sub

startsWith(s, sub) == Len(sub) <= Len(s) /\ SubSeq(s, 1, Len(sub)) = sub

endsWith(s, sub) == Len(sub) <= Len(s) /\ SubSeq(s, Len(s) - Len(sub) + 1, Len(s)) = sub

\* String.prototype.slice(0, n)
slice(s, n) == IF Len(s) <= n THEN s ELSE SubSeq(s, 1, n)

(***************************************************************************)
(* Regular expressions: a pattern is a sequence of elements, each a        *)
(* character class with a repetition range; MatchEnds gives every offset   *)
(* at which a match starting at offset i can end.                          *)
(***************************************************************************)
Cls(cs, lo, hi) == [cls |-> cs, min |-> lo, max |-> hi]
Lit(str) == [i \in 1..Len(str) |-> Cls({Char(str, i)}, 1, 1)]
Star(cs) == <<Cls(cs, 0, -1)>>
Plus(cs) == <<Cls(cs, 1, -1)>>

RECURSIVE RunLength(_, _, _)
\* the number of consecutive characters of class cs from offset i on
RunLength(s, i, cs) ==
  IF i < Len(s) /\ Char(s, i + 1) \in cs THEN 1 + RunLength(s, i + 1, cs) ELSE 0

RECURSIVE MatchEnds(_, _, _)
MatchEnds(s, i, pat) ==
  IF pat = <<>> THEN {i}
  ELSE LET e == Head(pat)
           run == RunLength(s, i, e.cls)
           top == IF e.max < 0 \/ run < e.max THEN run ELSE e.max
       IN UNION { MatchEnds(s, i + n, Tail(pat)) : n \in e.min..top }

\* \b at offset p of s (between character p and character p+1)
WordBoundary(s, p) ==
  (p > 0 /\ Char(s, p) \in WordChars) # (p < Len(s) /\ Char(s, p + 1) \in WordChars)

\* /^(alt1|alt2|...)\b/i.test(t)
TestAnchoredB(t, alts) ==
  LET low == toLowerCase(t)
  IN \E a \in alts : \E e \in MatchEnds(low, 0, a) : WordBoundary(low, e)

\* /(alt1|alt2|...)\b/i.test(t)
TestAnywhereB(t, alts) ==
  LET low == toLowerCase(t)
  IN \E i \in 0..Len(low) : \E a \in alts : \E e \in MatchEnds(low, i, a) : WordBoundary(low, e)

\* /^(alt1|alt2|...)$/i.test(t)
TestWhole(t, alts) ==
  LET low == toLowerCase(t)
  IN \E a \in alts : Len(low) \in MatchEnds(low, 0, a)

Max(S) == CHOOSE x \in S : \A y \in S : y <= x

(***************************************************************************)
(* Configuration (src/api/ask.js 404-412)                                  *)
(***************************************************************************)
TOP_K == 6
\* 0.16, in hundredths
MIN_OK_SCORE == 16
\* 0.12, in hundredths
HYBRID_BONUS == 12
\* the margin 0.04 of the passability gate, in hundredths
PASS_MARGIN == 4
\* loadHistory(sessionId, 10)
HISTORY_K == 10
BOT_NAME == "Duki"

(***************************************************************************)
(* detectResponseMode                                                      *)
(***************************************************************************)
HinglishTokens ==
  { "hai", "hain", "tha", "thi", "the", "kya", "kyu", "kyun", "kyunki", "kisi", "kis",
    "kaun", "kab", "kaha", "kahaan", "kaise", "nahi", "nahin", "ka", "ki", "ke", "mein",
    "me", "mai", "mei", "hum", "ap", "aap", "tum", "kr", "kar", "karo", "karna",
    "chahiye", "bhi", "sirf", "jaldi", "kitna", "ho", "hoga", "hogaya", "krdo", "pls",
    "plz", "yaar", "shukriya", "dhanyavaad", "dhanyavad" }

\* /[:)(!?]{2,}|\.{3,}/ finds a match (the emoji alternatives are outside the alphabet)
HasChatCue(text) ==
  \/ \E i \in 0..Len(text) : MatchEnds(text, i, <<Cls({":", ")", "(", "!", "?"}, 2, -1)>>) # {}
  \/ \E i \in 0..Len(text) : MatchEnds(text, i, <<Cls({"."}, 3, -1)>>) # {}

\* the score of detectResponseMode, doubled (a chat cue counts 0.5)
ModeScore2(q) ==
  LET text == toLowerCase(q)
      hits == { t \in HinglishTokens :
                  \/ includes(text, " " \o t \o " ")
                  \/ startsWith(text, t \o " ")
                  \/ endsWith(text, " " \o t)
                  \/ text = t }
  IN 2 * Cardinality(hits) + (IF HasChatCue(text) THEN 1 ELSE 0)

detectResponseMode(q) == IF ModeScore2(q) >= 4 THEN "hinglish" ELSE "english"

(***************************************************************************)
(* Small talk                                                              *)
(***************************************************************************)
\* the salutation of getISTGreeting depends on the clock alone
ISTGreetings == {"Good night", "Good morning", "Good afternoon", "Good evening"}

\* buildMinimalAssist with the two languages swapped
buildMinimalAssistSwapped(mode) ==
  IF mode = "hinglish" THEN "How can I assist you?" ELSE "Kaise madad kar sakta hoon?"

buildMinimalAssist(mode) ==
  IF mode = "hinglish" THEN "Kaise madad kar sakta hoon?" ELSE "How can I assist you?"

SmallTalkBankEn(kind) ==
  CASE kind = "hello" -> {"Hi! How can I help today?", "How can I help you?"}
    [] kind = "morning" -> {"Good morning! How can I help today?"}
    [] kind = "afternoon" -> {"Good afternoon! How can I help today?"}
    [] kind = "evening" -> {"Good evening! Need help with machines or spares?"}
    [] kind = "thanks" -> {"You're welcome! Anything else I can do?",
                           "Happy to help! Need brochures or a sales connect?"}
    [] kind = "bye" -> {"Take care! I'm here if you need me.", "Bye! Have a great day."}
    [] kind = "help" -> {"Ask about flagship lines, suggestions by application, or spares."}
    [] kind = "ack" -> {"Got it! What would you like next?"}

SmallTalkBankHi(kind) ==
  CASE kind = "hello" -> {"Namaste Duki se related kya madad chahiye?",
                          "Hello ji Main madad ke liye hoon-puchhiye."}
    [] kind = "morning" -> {"Good morning! Aaj kis cheez mein help chahiye?"}
    [] kind = "afternoon" -> {"Good afternoon! Duki ke baare mein kya jaana hai?"}
    [] kind = "evening" -> {"Good evening! Machines/spares par madad chahiye to batayein."}
    [] kind = "thanks" -> {"Shukriya! Aur kuch chahiye to pooch lijiye.",
                           "Welcome ji! Brochure chahiye ya sales connect karu?"}
    [] kind = "bye" -> {"Theek hai, milte hain! Jab chahein ping kar dijiyega.",
                        "Bye! Din shubh rahe."}
    [] kind = "help" -> {"Try: Flagship features, Application-wise machine suggestion, Spares info."}
    [] kind = "ack" -> {"Thik hai! Ab kya puchhna hai?"}

\* the replies makeSmallTalkReply may pick (Math.random chooses among them)
makeSmallTalkReply(kind, mode) ==
  IF mode = "hinglish" THEN SmallTalkBankHi(kind) ELSE SmallTalkBankEn(kind)

SpaceStar == Star(Whitespace)

HelloPatterns ==
  { Lit("h") \o Plus({"i"}), Lit("h") \o Plus({"i", "y"}), Lit("hell") \o Plus({"o"}),
    Lit("hey"), Lit("hey there"), Lit("hl") \o Plus({"o"}), Lit("y") \o Plus({"o"}),
    Lit("hola"), Lit("namaste"), Lit("namaskar"), Lit("salaam"), Lit("salam") }
MorningPatterns == { Lit("good") \o SpaceStar \o Lit("morning"), Lit("gm") }
AfternoonPatterns == { Lit("good") \o SpaceStar \o Lit("afternoon"), Lit("ga") }
EveningPatterns == { Lit("good") \o SpaceStar \o Lit("evening"), Lit("ge") }
AckPatterns ==
  { Lit("o") \o Plus({"k"}), Lit("oka") \o Plus({"y"}), Lit("ok") \o Plus({"k"}),
    Lit("hm") \o Plus({"m"}), Lit("haa") \o Plus({"n"}), Lit("h") \o Plus({"a"}),
    Lit("sure"), Lit("done"), Lit("great"), Lit("nice"), Lit("cool"), Lit("perfect"),
    Lit("thik"), Lit("theek"), Lit("fine") }
ThanksPatterns ==
  { Lit("thanks"), Lit("thank") \o SpaceStar \o Lit("you"), Lit("thx"), Lit("tnx"), Lit("ty"),
    Lit("much") \o SpaceStar \o Lit("appreciated"), Lit("much") \o SpaceStar \o Lit("thanks"),
    Lit("appreciate"), Lit("appreciated"), Lit("shukriya"), Lit("dhanyavaad"),
    Lit("dhanyavad") }
ByePatterns ==
  { Lit("bye"), Lit("bb"), Lit("good") \o SpaceStar \o Lit("bye"), Lit("goodbye"),
    Lit("see") \o SpaceStar \o Lit("ya"), Lit("see") \o SpaceStar \o Lit("you"),
    Lit("take") \o SpaceStar \o Lit("care"), Lit("tc"), Lit("ciao"), Lit("gn") }
HelpPatterns ==
  { Lit("who") \o SpaceStar \o Lit("are") \o SpaceStar \o Lit("you"),
    Lit("what") \o SpaceStar \o Lit("can") \o SpaceStar \o Lit("you") \o SpaceStar \o Lit("do"),
    Lit("help"), Lit("menu"), Lit("options"),
    Lit("how") \o SpaceStar \o Lit("to") \o SpaceStar \o Lit("use") }

\* the kind of the first pattern that matches, "" for null
smallTalkMatch(q) ==
  LET t == trim(q)
  IN CASE TestAnchoredB(t, HelloPatterns) -> "hello"
       [] TestAnchoredB(t, MorningPatterns) -> "morning"
       [] TestAnchoredB(t, AfternoonPatterns) -> "afternoon"
       [] TestAnchoredB(t, EveningPatterns) -> "evening"
       [] TestAnchoredB(t, AckPatterns) -> "ack"
       [] TestAnchoredB(t, ThanksPatterns) -> "thanks"
       [] TestAnchoredB(t, ByePatterns) -> "bye"
       [] TestAnywhereB(t, HelpPatterns) -> "help"
       [] OTHER -> ""

Greetings == {"hello", "morning", "afternoon", "evening"}

\* quickKind of handleSmallTalkAll, "" for null
QuickKind(trimmed) ==
  LET short == KeepChars(toLowerCase(trimmed), Letters)
  IN CASE short \in {"hi", "hey", "yo", "sup"} -> "hello"
       [] short \in {"bye", "bb", "ciao", "gn"} -> "bye"
       [] short \in {"ty", "thx", "tnx", "tx"} -> "thanks"
       [] short \in {"gm"} -> "morning"
       [] short \in {"ga"} -> "afternoon"
       [] short \in {"ge"} -> "evening"
       [] OTHER -> ""

IsBlank(trimmed) == RemoveChars(trimmed, {"?", ".", "!"} \cup Whitespace) = ""

GreetingWordPatterns ==
  { Lit("h") \o Plus({"i"}), Lit("hell") \o Plus({"o"}), Lit("hey"), Lit("hey there"),
    Lit("hl") \o Plus({"o"}), Lit("namaste"), Lit("namaskar"), Lit("salaam"), Lit("gm"),
    Lit("ga"), Lit("ge") }
IsGreetingWord(trimmed) == TestWhole(trimmed, GreetingWordPatterns)

\* handleSmallTalkAll: the set of replies it may return, {} for null
handleSmallTalkAll(q, isFirstTurn, greets) ==
  IF q = "" THEN {}
  ELSE
    LET mode == detectResponseMode(q)
        trimmed == trim(q)
        quickKind == QuickKind(trimmed)
        kind == smallTalkMatch(trimmed)
    IN IF quickKind # ""
       THEN IF isFirstTurn /\ greets /\ quickKind \in Greetings
            THEN {buildMinimalAssist(mode)}
            ELSE makeSmallTalkReply(quickKind, mode)
       ELSE IF kind # ""
       THEN IF isFirstTurn /\ greets /\ kind \in Greetings
            THEN {buildMinimalAssist(mode)}
            ELSE IF kind \in {"morning", "afternoon", "evening"}
            THEN IF mode = "hinglish"
                 THEN SmallTalkBankHi(kind)
                 ELSE { sal \o "! How can I help today?" : sal \in ISTGreetings }
            ELSE makeSmallTalkReply(kind, mode)
       ELSE IF isFirstTurn /\ greets /\ (IsBlank(trimmed) \/ IsGreetingWord(trimmed))
       THEN {buildMinimalAssist(mode)}
       ELSE {}

(***************************************************************************)
(* The texts of the replies (src/api/ask.js 837-972)                       *)
(***************************************************************************)
MissingMessageError == "Missing 'message' or 'question'."
NoCorpusMessage ==
  "Embeddings not loaded on server. Add data/index.json (npm run embed) and redeploy."
EmbeddingFailedMessage == "Embedding failed"
contactLine == "Please contact our sales team"
ContactMessage ==
  "Please contact our sales team at \nWhatsapp: +91 9350513789 \nEmbroidery@grouphca.com"

\* tip: the "be more specific" message of a retrieval that is not passable
SpecificTip(mode) ==
  IF mode = "hinglish"
  THEN "Is topic par Dukejia knowledge base mein clear info nahi mil rahi. Thoda specific likhiye-jaise 'DY-CS3000 specs' ya '1206H applications'."
  ELSE "I couldn't find clear context in the Dukejia knowledge base for that. Try being more specific-for example, 'DY-CS3000 specs' or '1206H applications'."

\* the nudge that replaces a generated contact fallback
NotInContextNudge(mode) ==
  IF mode = "hinglish"
  THEN "Mujhe context mein exact details nahi mili. Agar aap model/feature thoda aur specific batayenge to main exact specs dikha sakta hoon."
  ELSE "I didn't see the exact details in the context. If you specify the model/feature a bit more, I can pull precise specs."

\* the nudge that replaces an empty generated text
EmptyTextNudge(mode) ==
  IF mode = "hinglish"
  THEN "Main context se details nikal raha hoon-please model/feature thoda aur specific batayein."
  ELSE "I'm using the knowledge base-please specify the model/feature you need."

(***************************************************************************)
(* The workload: corpora, configurations, requests, collaborator outcomes  *)
(***************************************************************************)
\* the number of requests a run handles, concurrently
(***************************************************************************)
(* Session identifiers (src/api/ask.js 430-436, src/api/session.js 44-55)  *)
(***************************************************************************)
\* a || b on header values: an absent header is ""
Or(a, b) == IF a # "" THEN a ELSE b

\* the index of the first ";" of cookie from index from on, Len(cookie) + 1 if none
NextSemicolon(cookie, from) ==
  IF \E j \in from..Len(cookie) : Char(cookie, j) = ";"
  THEN CHOOSE j \in from..Len(cookie) :
         Char(cookie, j) = ";" /\ \A k \in from..(j - 1) : Char(cookie, k) # ";"
  ELSE Len(cookie) + 1

\* (?:^|;\s*) matches just before index i
AtCookieStart(cookie, i) ==
  \/ i = 1
  \/ \E k \in 1..(i - 1) :
       Char(cookie, k) = ";" /\ \A m \in (k + 1)..(i - 1) : Char(cookie, m) \in Whitespace

\* the indexes where name=([^;]+) matches, behind (?:^|;\s*) when anchored
CookieStarts(cookie, name, anchored) ==
  { i \in 1..Len(cookie) :
      /\ i + Len(name) + 1 <= Len(cookie)
      /\ SubSeq(cookie, i, i + Len(name)) = name \o "="
      /\ Char(cookie, i + Len(name) + 1) # ";"
      /\ anchored => AtCookieStart(cookie, i) }

\* cookie.match(/name=([^;]+)/)?.[1], "" when there is no match
CookieMatch(cookie, name, anchored) ==
  LET starts == CookieStarts(cookie, name, anchored)
  IN IF starts = {} THEN ""
     ELSE LET i == CHOOSE x \in starts : \A y \in starts : x <= y
              from == i + Len(name) + 1
          IN SubSeq(cookie, from, NextSemicolon(cookie, from) - 1)

\* x-session-id || x-sessionid || x-client-session
SessionHeader(hd) == Or(hd.sessionId, Or(hd.sessionid, hd.clientSession))

\* getSessionId(req) of ask.js
getSessionId(hd) ==
  IF SessionHeader(hd) # "" THEN slice(SessionHeader(hd), 100)
  ELSE IF CookieMatch(hd.cookie, "sid", FALSE) # ""
  THEN slice(CookieMatch(hd.cookie, "sid", FALSE), 100)
  ELSE Or(hd.forwardedFor, Or(hd.remoteAddress, "anon")) \o ":" \o hd.userAgent

\* cookieSid of session.js and fromCookie of reset.js
SessionCookie(cookie) ==
  Or(CookieMatch(cookie, "sid", TRUE),
     Or(CookieMatch(cookie, "dukejia_sid", TRUE), CookieMatch(cookie, "hca_sid", TRUE)))

\* sid of GET /api/session
SessionSid(hd) == Or(SessionHeader(hd), Or(SessionCookie(hd.cookie), "anon"))
\* sid of POST /api/reset
ResetSid(hd, body) ==
  Or(body.sessionId, Or(SessionHeader(hd), Or(SessionCookie(hd.cookie), "anon")))

NReq == 2
Reqs == 1..NReq

\* object: the element of raw.vectors is a JSON object, not null
Entry(t, e) == [text |-> t, embedding |-> e, model |-> "", object |-> TRUE]
\* a null element of raw.vectors: loadVectors checks only raw.vectors.length
NullEntry == [text |-> "", embedding |-> <<>>, model |-> "", object |-> FALSE]

\* no data/index.json: loadVectors throws and VECTORS stays []
CorpusNone == <<>>
\* a corpus of more entries than TOP_K
Corpus ==
  << Entry("Quilting overview", <<-4, 3>>),
     Entry("Embroidery overview", <<-4, 3>>),
     Entry("Perforation overview", <<-4, 3>>),
     Entry("Spares and service", <<-4, 3>>),
     Entry("Leather applications", <<-4, 3>>),
     Entry("dy 1206 head embroidery", <<-4, 3>>),
     Entry("DY-CS3000 computerized quilting machine.", <<3, 4>>) >>
\* a corpus with a short token, an entry without text whose embedding is the nearest
\* to a query, an entry dense in aliases of one model, and an entry with model metadata
CorpusMixed ==
  << Entry("A-1 needle set", <<-4, 3>>),
     Entry("", <<3, 4>>),
     Entry("DY-CS3000 (dycs3000, dy cs3000) quilting", <<-4, 3>>),
     [Entry("Quilting overview", <<-4, 3>>) EXCEPT !.model = "DY-900"],
     Entry("Embroidery overview", <<-4, 3>>),
     Entry("Perforation overview", <<-4, 3>>),
     Entry("Spares and service", <<-4, 3>>),
     Entry("Leather applications", <<-4, 3>>) >>
\* a data/index.json whose vectors array holds a null
CorpusBroken ==
  << NullEntry, Entry("DY-CS3000 computerized quilting machine.", <<3, 4>>) >>
\* the corpora whose every element is an object
Corpora == { CorpusNone, Corpus, CorpusMixed }

\* vectors: VECTORS; redis: the session store is configured; greets: FRONTEND_GREETS
Configs ==
  { [vectors |-> Corpus, redis |-> TRUE, greets |-> TRUE],
    [vectors |-> Corpus, redis |-> FALSE, greets |-> TRUE],
    [vectors |-> Corpus, redis |-> TRUE, greets |-> FALSE],
    [vectors |-> CorpusNone, redis |-> TRUE, greets |-> TRUE] }

\* request bodies: message (?? question ?? "") and isFirstTurn
Inputs ==
  { [message |-> "", first |-> FALSE],
    [message |-> "", first |-> TRUE],
    [message |-> "hi", first |-> TRUE],
    [message |-> "hi", first |-> FALSE],
    [message |-> "good morning", first |-> TRUE],
    [message |-> " ? ", first |-> TRUE],
    [message |-> "thanks", first |-> FALSE],
    [message |-> "hi, what's your phone number", first |-> FALSE],
    [message |-> "cs3000 price", first |-> FALSE],
    [message |-> "dy-1206 ka price kya hai", first |-> FALSE] }

\* the processes and request bodies of the corpus scenarios
ScenarioConfigs ==
  { [vectors |-> CorpusMixed, redis |-> TRUE, greets |-> TRUE],
    [vectors |-> CorpusBroken, redis |-> TRUE, greets |-> TRUE] }
ScenarioInputs ==
  { [message |-> "a1", first |-> FALSE],
    [message |-> "a 1", first |-> FALSE],
    [message |-> "a-1", first |-> FALSE],
    [message |-> "dy cs3000 price", first |-> FALSE],
    [message |-> "remember my city is Chennai", first |-> FALSE] }

\* q of the handler for each request body
Queries == { trim(in.message) : in \in Inputs \cup ScenarioInputs }

\* the headers of a request; "" for a header that is not sent
NoHeaders ==
  [ sessionId |-> "", sessionid |-> "", clientSession |-> "", cookie |-> "",
    forwardedFor |-> "", remoteAddress |-> "", userAgent |-> "" ]
Headers == { [NoHeaders EXCEPT !.sessionId = "s1"] }

\* an identifier of 108 characters
LongId == "0123456789abcdefghijklmnopqrstuvwxyz0123456789abcdefghijklmnopqrstuvwxyz0123456789abcdefghijklmnopqrstuvwxyz"

\* the headers of the session scenarios
SessionHeaders ==
  { [NoHeaders EXCEPT !.sessionId = "s1", !.cookie = "sid=c1"],
    [NoHeaders EXCEPT !.cookie = "theme=dark; sid=c1"],
    [NoHeaders EXCEPT !.cookie = "ssid=abc; sid=xyz"],
    [NoHeaders EXCEPT !.clientSession = LongId],
    [NoHeaders EXCEPT !.forwardedFor = "10.0.0.7", !.userAgent = "curl"] }
\* the headers and bodies of GET /api/session and POST /api/reset
ProbeHeaders == { [NoHeaders EXCEPT !.sessionId = "s1", !.cookie = "sid=c1"] }
ResetBodies == { [sessionId |-> ""] }
\* the request bodies of the session scenarios
SessionInputs == { [message |-> "cs3000 price", first |-> FALSE] }

SessionIds == { getSessionId(hd) : hd \in Headers \cup SessionHeaders }

\* a collaborator call that rejects: err.status and err.message
Failures == { [status |-> 503, message |-> "The model is overloaded."] }

\* embRes.embedding.values of a call that resolves
EmbedValues == { <<>>, <<3, 4>>, <<-3, -4>>, <<3, -4>> }

\* result.response.text() of a call that resolves
GeneratedTexts ==
  { "", ContactMessage, "The DY-CS3000 is a computerized quilting machine." }

SmallTalkKinds ==
  {"hello", "morning", "afternoon", "evening", "thanks", "bye", "help", "ack"}

\* The texts that requests, replies and the corpus bring; what the handler computes
\* from one of them is computed once.
KnownTexts ==
  Queries \cup GeneratedTexts
    \cup { Corpus[i].text : i \in DOMAIN Corpus }
    \cup { CorpusMixed[i].text : i \in DOMAIN CorpusMixed }
    \cup { SpecificTip(m) : m \in {"english", "hinglish"} }
    \cup { NotInContextNudge(m) : m \in {"english", "hinglish"} }
    \cup { EmptyTextNudge(m) : m \in {"english", "hinglish"} }
    \cup { NoCorpusMessage, EmbeddingFailedMessage }
    \cup UNION { SmallTalkBankEn(k) \cup SmallTalkBankHi(k) : k \in SmallTalkKinds }
    \cup { sal \o "! How can I help today?" : sal \in ISTGreetings }
    \cup { buildMinimalAssist(m) : m \in {"english", "hinglish"} }

LowerTable == [t \in KnownTexts |-> toLowerCase(t)]
\* t.toLowerCase()
LowerText(t) == IF t \in DOMAIN LowerTable THEN LowerTable[t] ELSE toLowerCase(t)

SmallTalkTable ==
  [q \in Queries, f \in BOOLEAN, g \in BOOLEAN |-> handleSmallTalkAll(q, f, g)]
ModeTable == [q \in Queries |-> detectResponseMode(q)]

(***************************************************************************)
(* The model-token index (src/api/ask.js 534-616).  A knowledge entry is   *)
(* [text, embedding, model]: text stands for                               *)
(* text_original || text_cleaned || text ("" when none is set), model for  *)
(* model || meta.model || meta.Model ("" when none is set).                *)
(***************************************************************************)
EntryText(v) == v.text

normModelToken(s) ==
  LET lower == toLowerCase(s)
      nospace == RemoveChars(lower, Whitespace)
      dashed == ReplaceChars(nospace, {"_"}, "-")
      noparen == RemoveChars(dashed, {"(", ")"})
      kept == KeepChars(noparen, Letters \cup Digits \cup {".", "+", "-"})
  IN TrimRight(TrimLeft(kept, {"-"}), {"-"})

\* GENERIC_MODEL_RE, its two alternatives between the two \b
GenericAlt1 ==
  <<Cls(Letters, 1, 6), Cls(ModelChars, 0, -1), Cls(Digits, 1, 1), Cls(ModelChars, 0, -1)>>
GenericAlt2 == <<Cls(Letters, 0, -1), Cls(Digits, 1, 1), Cls(ModelChars, 1, 15)>>

\* The end of the match of GENERIC_MODEL_RE that starts at offset i of low, -1 when
\* there is none.  The quantifiers are greedy and the last one of each alternative
\* is backed off to the nearest \b, which is the longest match of the alternative.
GenericMatchEnd(low, i) ==
  LET ends1 == { e \in MatchEnds(low, i, GenericAlt1) : WordBoundary(low, e) }
      ends2 == { e \in MatchEnds(low, i, GenericAlt2) : WordBoundary(low, e) }
  IN IF ~WordBoundary(low, i) THEN -1
     ELSE IF ends1 # {} THEN Max(ends1)
     ELSE IF ends2 # {} THEN Max(ends2)
     ELSE -1

Min(a, b) == IF a <= b THEN a ELSE b
MinOf(S) == CHOOSE x \in S : \A y \in S : x <= y

RECURSIVE GenericScan(_, _, _, _)
\* The captures m[1] of the loop  while ((m = GENERIC_MODEL_RE.exec(txt)) !== null)
\* from lastIndex i on; starts are the offsets at which the expression matches.
GenericScan(txt, low, starts, i) ==
  LET ahead == { j \in starts : j >= i }
  IN IF ahead = {} THEN {}
     ELSE LET j == MinOf(ahead)
              e == GenericMatchEnd(low, j)
          IN {SubSeq(txt, j + 1, e)} \cup GenericScan(txt, low, starts, e)

GenericCaptures(txt) ==
  LET low == LowerText(txt)
      starts == { j \in 0..(Len(txt) - 1) : GenericMatchEnd(low, j) >= 0 }
  IN GenericScan(txt, low, starts, 0)

MatchTable == [t \in KnownTexts |-> GenericCaptures(t)]
GenericMatches(txt) == IF txt \in DOMAIN MatchTable THEN MatchTable[txt] ELSE GenericCaptures(txt)

HasDigit(s) == \E i \in 1..Len(s) : Char(s, i) \in Digits

LikelyPrefixes ==
  { "dy", "dukejia", "duke", "cs", "sk", "pe", "halo", "es", "tajima", "highlead", "juki",
    "dyk", "dy-", "dy_" }
\* LIKELY_PREFIX.test(raw)
LIKELY_PREFIX(raw) == \E pre \in LikelyPrefixes : startsWith(toLowerCase(raw), pre)

\* LIKELY_PREFIX.test(raw) || /[-+.]/.test(raw) || /^[a-z]+\d/.test(raw); the last
\* test has no i flag and sees the capture as written
GoodShape(raw) ==
  \/ LIKELY_PREFIX(raw)
  \/ \E i \in 1..Len(raw) : Char(raw, i) \in {"-", "+", "."}
  \/ MatchEnds(raw, 0, <<Cls(Letters, 1, -1), Cls(Digits, 1, 1)>>) # {}

\* seenHere: the canonical tokens mined from one text
MinedTokens(txt) ==
  { normModelToken(raw) :
      raw \in { r \in GenericMatches(txt) :
                  /\ HasDigit(r)
                  /\ Len(r) >= 3 /\ Len(r) <= 24
                  /\ Len(normModelToken(r)) >= 3
                  /\ GoodShape(r) } }

\* the mechanical variants of a canonical token
AliasVariants(n) ==
  { n, RemoveChars(n, {"-"}), RemoveChars(n, {"."}), RemoveChars(n, {"+"}),
    ReplaceChars(n, {"-", ".", "+"}, " ") }

\* the token of the metadata field of an entry, {} when it is absent or has no digit
MetaTokens(v) ==
  LET n == normModelToken(v.model)
  IN IF v.model # "" /\ n # "" /\ HasDigit(n) THEN {n} ELSE {}

\* what one loop iteration of initModelIndexOnce adds for entry v
EntryTokens(v) == IF EntryText(v) = "" THEN {} ELSE MetaTokens(v) \cup MinedTokens(EntryText(v))

\* the aliases of the mined tokens only: the metadata branch without line 573
EntryAliasesMinedOnly(v, n) ==
  IF EntryText(v) = "" THEN {}
  ELSE IF n \in MinedTokens(EntryText(v)) THEN AliasVariants(n) ELSE {}

EntryAliases(v, n) ==
  IF EntryText(v) = "" THEN {}
  ELSE (IF n \in MetaTokens(v) THEN {n} ELSE {})
       \cup (IF n \in MinedTokens(EntryText(v)) THEN AliasVariants(n) ELSE {})

\* localSet after the loop over the corpus
BuildModelSet(vectors) == UNION { EntryTokens(vectors[i]) : i \in DOMAIN vectors }

AliasBucket(vectors, n) == UNION { EntryAliases(vectors[i], n) : i \in DOMAIN vectors }

RECURSIVE AliasMapOver(_, _)
\* the Map with the given keys, each bound to its alias set
AliasMapOver(keys, vectors) ==
  IF keys = {} THEN <<>>
  ELSE LET k == CHOOSE x \in keys : TRUE
       IN (k :> AliasBucket(vectors, k)) @@ AliasMapOver(keys \ {k}, vectors)

\* aliasMap after the loop over the corpus
BuildAliasMap(vectors) == AliasMapOver(BuildModelSet(vectors), vectors)

\* MODEL_SET and MODEL_ALIASES that initModelIndexOnce builds from a corpus
BuildIndex(vectors) == [set |-> BuildModelSet(vectors), aliases |-> BuildAliasMap(vectors)]
IndexTable == [c \in Corpora |-> BuildIndex(c)]

(***************************************************************************)
(* Entity extraction and hybrid scoring (src/api/ask.js 620-691, 877-892)  *)
(***************************************************************************)
RECURSIVE JoinTexts(_)
\* [text, ...texts].join(" ")
JoinTexts(texts) ==
  IF Len(texts) = 0 THEN ""
  ELSE IF Len(texts) = 1 THEN texts[1]
  ELSE texts[1] \o " " \o JoinTexts(Tail(texts))

\* the match against the canonical tokens only, without their aliases
KnownEntitiesCanonicalOnly(lower, modelSet, modelAliases) ==
  { canonical \in modelSet : Len(canonical) >= 3 /\ includes(lower, canonical) }

\* 1) alias match against the index
KnownEntities(lower, modelSet, modelAliases) ==
  { canonical \in modelSet :
      \E alias \in modelAliases[canonical] : Len(alias) >= 3 /\ includes(lower, toLowerCase(alias)) }

\* /^v\d{1,2}$/.test(n)
IsVersionTag(n) == Len(n) \in MatchEnds(n, 0, <<Cls({"v"}, 1, 1), Cls(Digits, 1, 2)>>)

\* The captures of GENERIC_MODEL_RE over texts.join(" "): a match holds no space and
\* the joining space is a \b like the ends of a text, so the loop over the joined
\* string finds the matches of each text.
GenericMatchesJoined(texts) == UNION { GenericMatches(texts[i]) : i \in DOMAIN texts }

\* 2) generic fallback for unseen-but-valid model strings
UnseenEntities(texts) ==
  { normModelToken(raw) :
      raw \in { r \in GenericMatchesJoined(texts) :
                  /\ Len(r) >= 3 /\ Len(r) <= 24
                  /\ HasDigit(r)
                  /\ normModelToken(r) # ""
                  /\ ~IsVersionTag(normModelToken(r))
                  /\ GoodShape(r) } }

\* extractEntities once the index is built: the set of sticky entities
extractEntities(text, historyTexts, modelSet, modelAliases) ==
  LET texts == <<text>> \o historyTexts
      \* combined.toLowerCase(), text by text
      lower == JoinTexts([i \in DOMAIN texts |-> LowerText(texts[i])])
  IN KnownEntities(lower, modelSet, modelAliases) \cup UnseenEntities(texts)

\* aliasBag of kwScoreFor
AliasBag(kwList, modelAliases) ==
  UNION { LET n == normModelToken(kw)
          IN AliasVariants(n)
             \cup (IF n \in DOMAIN modelAliases
                   THEN { toLowerCase(al) : al \in modelAliases[n] } ELSE {})
          : kw \in kwList }

kwScoreFor(v, kwList, modelAliases) ==
  IF kwList = {} THEN 0
  ELSE LET t == LowerText(EntryText(v))
       IN Cardinality({ alias \in AliasBag(kwList, modelAliases) :
                          Len(alias) >= 3 /\ includes(t, alias) })

RECURSIVE DotTo(_, _, _)
DotTo(a, b, n) == IF n = 0 THEN 0 ELSE a[n] * b[n] + DotTo(a, b, n - 1)

\* Math.sqrt on the perfect squares the vectors of the model produce
Sqrt(n) == CHOOSE k \in 0..n : k * k = n

\* cosineSim in hundredths
cosineSim(a, b) ==
  LET n == Min(Len(a), Len(b))
      dot == DotTo(a, b, n)
      den == Sqrt(DotTo(a, a, n)) * Sqrt(DotTo(b, b, n))
  IN IF den = 0 THEN 100 * dot ELSE (100 * dot) \div den

\* the score without the cap of the match count
HybridScoreUncapped(cos, kw) == cos + HYBRID_BONUS * kw

\* score = cos + (kw > 0 ? HYBRID_BONUS * Math.min(kw, 3) : 0)
HybridScore(cos, kw) == cos + (IF kw > 0 THEN HYBRID_BONUS * Min(kw, 3) ELSE 0)

ScoredEntry(vectors, i, qVec, kwList, modelAliases) ==
  LET cos == cosineSim(qVec, vectors[i].embedding)
      kw == kwScoreFor(vectors[i], kwList, modelAliases)
  IN [idx |-> i, score |-> HybridScore(cos, kw), cos |-> cos, kw |-> kw]

RECURSIVE ScoreAll(_, _, _, _, _)
\* VECTORS.map(v => ({ ...v, score, cos, kw })), from entry i on
ScoreAll(vectors, i, qVec, kwList, modelAliases) ==
  IF i > Len(vectors) THEN <<>>
  ELSE <<ScoredEntry(vectors, i, qVec, kwList, modelAliases)>>
       \o ScoreAll(vectors, i + 1, qVec, kwList, modelAliases)

\* the comparator (a,b) => b.score - a.score is negative: a sorts before b
SortsBefore(a, b) == a.score > b.score

RECURSIVE InsertStable(_, _)
\* c put into the sorted sequence after every element that does not sort after it
InsertStable(sorted, c) ==
  IF sorted = <<>> THEN <<c>>
  ELSE IF SortsBefore(c, Head(sorted)) THEN <<c>> \o sorted
  ELSE <<Head(sorted)>> \o InsertStable(Tail(sorted), c)

RECURSIVE SortStable(_, _)
\* Array.prototype.sort, which is stable: the first n elements of seq, sorted
SortStable(seq, n) == IF n = 0 THEN <<>> ELSE InsertStable(SortStable(seq, n - 1), seq[n])

\* VECTORS.map(...).sort(...).slice(0, TOP_K)
RankCandidates(vectors, qVec, kwList, modelAliases) ==
  LET sorted == SortStable(ScoreAll(vectors, 1, qVec, kwList, modelAliases), Len(vectors))
  IN SubSeq(sorted, 1, Min(TOP_K, Len(sorted)))

\* modelFoundInTop that looks for the entity in the text as written, not lower-cased
ModelFoundInTopCaseSensitive(vectors, candidates, stickyEntities) ==
  /\ stickyEntities # {}
  /\ \E p \in DOMAIN candidates :
       \E m \in stickyEntities : includes(EntryText(vectors[candidates[p].idx]), m)

\* modelFoundInTop
ModelFoundInTop(vectors, candidates, stickyEntities) ==
  /\ stickyEntities # {}
  /\ \E p \in DOMAIN candidates :
       \E m \in stickyEntities : includes(LowerText(EntryText(vectors[candidates[p].idx])), m)

\* passable that asks for a top hit instead of comparing its score
PassableWithAnyHit(vectors, candidates, stickyEntities) ==
  \/ Len(candidates) > 0
  \/ ModelFoundInTop(vectors, candidates, stickyEntities)

\* passable
Passable(vectors, candidates, stickyEntities) ==
  \/ (IF Len(candidates) > 0 THEN candidates[1].score ELSE 0) >= MIN_OK_SCORE - PASS_MARGIN
  \/ ModelFoundInTop(vectors, candidates, stickyEntities)

(***************************************************************************)
(* Replies of the handler (src/api/ask.js 837-972)                         *)
(***************************************************************************)
\* `${s.text_original || s.text_cleaned || s.text}` of a context block
BlockText(v) == IF EntryText(v) = "" THEN "undefined" ELSE EntryText(v)

RECURSIVE BuildContext(_, _, _)
\* candidates.map((s,i) => `[i+1] text`).join("\n\n"), from block i on
BuildContext(vectors, candidates, i) ==
  IF i > Len(candidates) THEN ""
  ELSE "[" \o Char(DigitString, i + 1) \o "] " \o BlockText(vectors[candidates[i].idx])
       \o (IF i < Len(candidates) THEN "\n\n" ELSE "")
       \o BuildContext(vectors, candidates, i + 1)

\* the final safety without the contact guard of lines 959-964
FinalizeTextNoContactGuard(text, context, mode) ==
  IF text = ""
  THEN (IF Len(trim(context)) > 0 THEN EmptyTextNudge(mode) ELSE ContactMessage)
  ELSE text

\* the final safety without the empty-text guard of lines 965-972
FinalizeTextNoEmptyGuard(text, context, mode) ==
  IF includes(text, contactLine) /\ Len(trim(context)) > 0 THEN NotInContextNudge(mode) ELSE text

\* Final safety: the text the handler emits for the text the generation returned
FinalizeText(text, context, mode) ==
  LET containsContact == includes(text, contactLine)
      contextLooksNonEmpty == Len(trim(context)) > 0
      guarded == IF containsContact /\ contextLooksNonEmpty THEN NotInContextNudge(mode) ELSE text
  IN IF guarded = ""
     THEN (IF contextLooksNonEmpty THEN EmptyTextNudge(mode) ELSE ContactMessage)
     ELSE guarded

(***************************************************************************)
(* State                                                                   *)
(***************************************************************************)
VARIABLES
  VECTORS,          \* the corpus loaded at cold start
  redis,            \* TRUE when the session store is configured
  FRONTEND_GREETS,
  MODEL_SET, MODEL_ALIASES, MODEL_INIT_DONE,
  store,            \* the list of turns of each session in the store
  req,              \* the handler invocations
  SESSIONS,         \* the in-memory session map of session.js and reset.js
  probe             \* the last response of GET /api/session or POST /api/reset

vars ==
  <<VECTORS, redis, FRONTEND_GREETS, MODEL_SET, MODEL_ALIASES, MODEL_INIT_DONE, store, req,
    SESSIONS, probe>>

NoResponse == [status |-> 0, body |-> "none", text |-> ""]

IdleRequest ==
  [ pc |-> "idle", headers |-> NoHeaders, message |-> "", q |-> "", first |-> FALSE,
    sid |-> "",
    history |-> <<>>, mode |-> "", sticky |-> {}, candidates |-> <<>>,
    passable |-> FALSE, context |-> "", generated |-> "", reply |-> "",
    qVec |-> <<>>, status |-> 0, branch |-> "", embedCalls |-> 0, genCalls |-> 0,
    loads |-> 0, response |-> NoResponse ]

\* no response of the two session endpoints yet
NoProbe == [endpoint |-> "none", status |-> 0, sessionId |-> "", historyLength |-> 0]

Init ==
  /\ \E c \in Configs :
       /\ VECTORS = c.vectors
       /\ redis = c.redis
       /\ FRONTEND_GREETS = c.greets
  /\ MODEL_SET = {}
  /\ MODEL_ALIASES = <<>>
  /\ MODEL_INIT_DONE = FALSE
  /\ store = [sid \in SessionIds |-> <<>>]
  /\ req = [r \in Reqs |-> IdleRequest]
  /\ SESSIONS = <<>>
  /\ probe = NoProbe

config == <<VECTORS, redis, FRONTEND_GREETS>>
sessions == <<SESSIONS, probe>>
index == <<MODEL_SET, MODEL_ALIASES, MODEL_INIT_DONE>>

(***************************************************************************)
(* The session store (src/api/ask.js 437-448)                              *)
(***************************************************************************)
\* redis.lrange(key, -k, -1)
LastK(turns, k) == IF Len(turns) <= k THEN turns ELSE SubSeq(turns, Len(turns) - k + 1, Len(turns))

loadHistory(sessionId, k) == IF ~redis THEN <<>> ELSE LastK(store[sessionId], k)

\* the store after saveTurn(sessionId, role, text) of request r
saveTurn(sessionId, role, text, r) ==
  IF ~redis THEN store
  ELSE [store EXCEPT ![sessionId] = Append(@, [role |-> role, text |-> text, by |-> r])]

HistoryTexts(history) == [i \in 1..Len(history) |-> history[i].text]

(***************************************************************************)
(* The handler (src/api/ask.js 813-995), one action per resumption         *)
(***************************************************************************)
\* catch (err): the structured error response
ErrorResponse(err) == [status |-> err.status, body |-> "error", text |-> err.message]

\* the handler without the validation of lines 837-839
ReceiveUnvalidated(r, in, hd) ==
  /\ req[r].pc = "idle"
  /\ \A o \in Reqs : o < r => req[o].pc # "idle"
  /\ req' = [req EXCEPT ![r] =
       [@ EXCEPT !.pc = "load", !.headers = hd, !.message = in.message,
                 !.q = trim(in.message), !.first = in.first, !.sid = getSessionId(hd)]]
  /\ UNCHANGED <<sessions, config, index, store>>

\* POST /api/ask arrives: the body is read and validated, loadHistory is called
Receive(r, in, hd) ==
  /\ req[r].pc = "idle"
  /\ \A o \in Reqs : o < r => req[o].pc # "idle"
  /\ LET q == trim(in.message)
     IN IF q = "" /\ ~in.first
        THEN req' = [req EXCEPT ![r] =
               [@ EXCEPT !.pc = "done", !.headers = hd, !.message = in.message, !.q = q,
                         !.first = in.first, !.branch = "invalid", !.status = 400,
                         !.response = [status |-> 400, body |-> "error",
                                       text |-> MissingMessageError]]]
        ELSE req' = [req EXCEPT ![r] =
               [@ EXCEPT !.pc = "load", !.headers = hd, !.message = in.message, !.q = q,
                         !.first = in.first, !.sid = getSessionId(hd)]]
  /\ UNCHANGED <<sessions, config, index, store>>

\* the TypeError of reading a property of a null entry: it has no status, the catch
\* answers 500 with its message
NullTextError ==
  [status |-> 500, message |-> "Cannot read properties of null (reading 'text_original')"]
NullEmbeddingError ==
  [status |-> 500, message |-> "Cannot read properties of null (reading 'embedding')"]
HasNull(vectors) == \E i \in DOMAIN vectors : ~vectors[i].object

\* initModelIndexOnce assigning its fresh locals before the early return of line 557
IndexAfterInitReassigned ==
  IF MODEL_INIT_DONE THEN [set |-> {}, aliases |-> <<>>]
  ELSE IF VECTORS \in Corpora THEN IndexTable[VECTORS]
  ELSE BuildIndex(VECTORS)

\* initModelIndexOnce: the index after the call
IndexAfterInit ==
  IF MODEL_INIT_DONE THEN [set |-> MODEL_SET, aliases |-> MODEL_ALIASES]
  ELSE IF VECTORS \in Corpora THEN IndexTable[VECTORS]
  ELSE BuildIndex(VECTORS)

\* handleSmallTalkAll(q, { isFirstTurn }) and detectResponseMode(q) of the handler
SmallTalkOf(q, isFirstTurn) ==
  IF q \in Queries THEN SmallTalkTable[q, isFirstTurn, FRONTEND_GREETS]
  ELSE handleSmallTalkAll(q, isFirstTurn, FRONTEND_GREETS)
ModeOf(q) == IF q \in Queries THEN ModeTable[q] ELSE detectResponseMode(q)

\* the reply of a deterministic branch is ready: the two turns are to be saved
ToSave(rq, branch, status, reply) ==
  [rq EXCEPT !.pc = "saveUser", !.branch = branch, !.status = status, !.reply = reply]

\* the handler without the corpus guard of lines 853-858
HistoryLoadedUnguarded(r) ==
  /\ req[r].pc = "load"
  /\ LET rq == [req[r] EXCEPT !.history = loadHistory(req[r].sid, HISTORY_K), !.loads = @ + 1]
         st == SmallTalkOf(rq.q, rq.first)
     IN IF st # {}
        THEN /\ \E text \in st : req' = [req EXCEPT ![r] = ToSave(rq, "smalltalk", 200, text)]
             /\ UNCHANGED index
        ELSE LET ix == IndexAfterInit
             IN /\ MODEL_INIT_DONE' = TRUE
                /\ MODEL_SET' = ix.set
                /\ MODEL_ALIASES' = ix.aliases
                /\ req' = [req EXCEPT ![r] =
                     [rq EXCEPT !.pc = "embed", !.mode = ModeOf(rq.q),
                                !.sticky = extractEntities(rq.q, HistoryTexts(rq.history),
                                                           ix.set, ix.aliases),
                                !.embedCalls = @ + 1]]
  /\ UNCHANGED <<sessions, config, store>>

\* loadHistory resolves; small talk, the corpus guard, entity extraction, then the
\* embedding call
HistoryLoaded(r) ==
  /\ req[r].pc = "load"
  /\ LET rq == [req[r] EXCEPT !.history = loadHistory(req[r].sid, HISTORY_K), !.loads = @ + 1]
         st == SmallTalkOf(rq.q, rq.first)
     IN IF st # {}
        THEN /\ \E text \in st : req' = [req EXCEPT ![r] = ToSave(rq, "smalltalk", 200, text)]
             /\ UNCHANGED index
        ELSE IF Len(VECTORS) = 0
        THEN /\ req' = [req EXCEPT ![r] = ToSave(rq, "nocorpus", 500, NoCorpusMessage)]
             /\ UNCHANGED index
        ELSE IF ~MODEL_INIT_DONE /\ HasNull(VECTORS)
        \* the build throws after line 558 set the flag and before 614-615 assign
        THEN /\ MODEL_INIT_DONE' = TRUE
             /\ UNCHANGED <<MODEL_SET, MODEL_ALIASES>>
             /\ req' = [req EXCEPT ![r] =
                  [rq EXCEPT !.pc = "done", !.branch = "error", !.status = NullTextError.status,
                             !.response = ErrorResponse(NullTextError)]]
        ELSE LET ix == IndexAfterInit
             IN /\ MODEL_INIT_DONE' = TRUE
                /\ MODEL_SET' = ix.set
                /\ MODEL_ALIASES' = ix.aliases
                /\ req' = [req EXCEPT ![r] =
                     [rq EXCEPT !.pc = "embed", !.mode = ModeOf(rq.q),
                                !.sticky = extractEntities(rq.q, HistoryTexts(rq.history),
                                                           ix.set, ix.aliases),
                                !.embedCalls = @ + 1]]
  /\ UNCHANGED <<sessions, config, store>>

\* embedder.embedContent rejects: the outer catch answers
EmbedFails(r, err) ==
  /\ req[r].pc = "embed"
  /\ req' = [req EXCEPT ![r] =
       [@ EXCEPT !.pc = "done", !.branch = "error", !.status = err.status,
                 !.response = ErrorResponse(err)]]
  /\ UNCHANGED <<sessions, config, index, store>>

\* embedder.embedContent resolves with qVec: ranking, the passability gate, then either
\* a deterministic reply or the generation call
EmbedReturns(r, qVec) ==
  /\ req[r].pc = "embed"
  /\ LET rq == [req[r] EXCEPT !.qVec = qVec]
         candidates == RankCandidates(VECTORS, qVec, rq.sticky, MODEL_ALIASES)
         passable == Passable(VECTORS, candidates, rq.sticky)
     IN IF Len(qVec) = 0
        THEN req' = [req EXCEPT ![r] = ToSave(rq, "embedfail", 500, EmbeddingFailedMessage)]
        ELSE IF HasNull(VECTORS)
        \* VECTORS.map throws at v.embedding of the null entry
        THEN req' = [req EXCEPT ![r] =
               [rq EXCEPT !.pc = "done", !.branch = "error", !.status = NullEmbeddingError.status,
                          !.response = ErrorResponse(NullEmbeddingError)]]
        ELSE IF ~passable
        THEN req' = [req EXCEPT ![r] =
               ToSave([rq EXCEPT !.candidates = candidates], "tip", 200, SpecificTip(rq.mode))]
        ELSE req' = [req EXCEPT ![r] =
               [rq EXCEPT !.pc = "gen", !.candidates = candidates, !.passable = TRUE,
                          !.context = BuildContext(VECTORS, candidates, 1),
                          !.genCalls = @ + 1]]
  /\ UNCHANGED <<sessions, config, index, store>>

\* llm.generateContent rejects: the outer catch answers
GenerateFails(r, err) ==
  /\ req[r].pc = "gen"
  /\ req' = [req EXCEPT ![r] =
       [@ EXCEPT !.pc = "done", !.branch = "error", !.status = err.status,
                 !.response = ErrorResponse(err)]]
  /\ UNCHANGED <<sessions, config, index, store>>

\* the handler calling llm.generateContent again when the text is empty
GenerateRetriesEmpty(r, text) ==
  /\ req[r].pc = "gen"
  /\ req' = [req EXCEPT ![r] =
       IF text = "" THEN [req[r] EXCEPT !.generated = text, !.genCalls = @ + 1]
       ELSE ToSave([req[r] EXCEPT !.generated = text], "answer", 200,
                   FinalizeText(text, req[r].context, req[r].mode))]
  /\ UNCHANGED <<sessions, config, index, store>>

\* llm.generateContent resolves with text: the final safety guard
GenerateReturns(r, text) ==
  /\ req[r].pc = "gen"
  /\ req' = [req EXCEPT ![r] =
       ToSave([req[r] EXCEPT !.generated = text], "answer", 200,
              FinalizeText(text, req[r].context, req[r].mode))]
  /\ UNCHANGED <<sessions, config, index, store>>

\* the first save with the turns in the other order: the reply is saved first
SaveReplyFirst(r) ==
  /\ req[r].pc = "saveUser"
  /\ store' = saveTurn(req[r].sid, "assistant", req[r].reply, r)
  /\ req' = [req EXCEPT ![r].pc = "saveAssistant"]
  /\ UNCHANGED <<sessions, config, index>>

\* await saveTurn(sessionId, "user", q || "")
SaveUserTurn(r) ==
  /\ req[r].pc = "saveUser"
  /\ store' = saveTurn(req[r].sid, "user", req[r].q, r)
  /\ req' = [req EXCEPT ![r].pc = "saveAssistant"]
  /\ UNCHANGED <<sessions, config, index>>

\* res.status(200).json({ answer }) or res.status(500).json({ error })
ReplyResponse(rq) ==
  [status |-> rq.status, body |-> IF rq.status = 200 THEN "answer" ELSE "error", text |-> rq.reply]

\* await saveTurn(sessionId, "assistant", reply), then the response is sent
SaveAssistantTurn(r) ==
  /\ req[r].pc = "saveAssistant"
  /\ store' = saveTurn(req[r].sid, "assistant", req[r].reply, r)
  /\ req' = [req EXCEPT ![r] = [@ EXCEPT !.pc = "done", !.response = ReplyResponse(req[r])]]
  /\ UNCHANGED <<sessions, config, index>>

Next ==
  \/ \E r \in Reqs, in \in Inputs, hd \in Headers : Receive(r, in, hd)
  \/ \E r \in Reqs : HistoryLoaded(r)
  \/ \E r \in Reqs, err \in Failures : EmbedFails(r, err)
  \/ \E r \in Reqs, qVec \in EmbedValues : EmbedReturns(r, qVec)
  \/ \E r \in Reqs, err \in Failures : GenerateFails(r, err)
  \/ \E r \in Reqs, text \in GeneratedTexts : GenerateReturns(r, text)
  \/ \E r \in Reqs : SaveUserTurn(r)
  \/ \E r \in Reqs : SaveAssistantTurn(r)

Spec == Init /\ [][Next]_vars

(***************************************************************************)
(* The handler over the corpus scenarios                                   *)
(***************************************************************************)
InitScenarios ==
  /\ \E c \in ScenarioConfigs :
       /\ VECTORS = c.vectors
       /\ redis = c.redis
       /\ FRONTEND_GREETS = c.greets
  /\ MODEL_SET = {}
  /\ MODEL_ALIASES = <<>>
  /\ MODEL_INIT_DONE = FALSE
  /\ store = [sid \in SessionIds |-> <<>>]
  /\ req = [r \in Reqs |-> IdleRequest]
  /\ SESSIONS = <<>>
  /\ probe = NoProbe

NextScenarios ==
  \/ \E r \in Reqs, in \in ScenarioInputs, hd \in Headers : Receive(r, in, hd)
  \/ \E r \in Reqs : HistoryLoaded(r)
  \/ \E r \in Reqs, err \in Failures : EmbedFails(r, err)
  \/ \E r \in Reqs, qVec \in EmbedValues : EmbedReturns(r, qVec)
  \/ \E r \in Reqs, err \in Failures : GenerateFails(r, err)
  \/ \E r \in Reqs, text \in GeneratedTexts : GenerateReturns(r, text)
  \/ \E r \in Reqs : SaveUserTurn(r)
  \/ \E r \in Reqs : SaveAssistantTurn(r)

SpecScenarios == InitScenarios /\ [][NextScenarios]_vars

(***************************************************************************)
(* The session endpoints (src/api/session.js, reset.js) beside the handler *)
(***************************************************************************)
\* sess.history of GET /api/session: SESSIONS.get(sid) || {}, history or []
SessionHistory(sid) == IF sid \in DOMAIN SESSIONS THEN SESSIONS[sid].history ELSE <<>>

\* GET /api/session: the report of the session of the map
SessionGet(hd) ==
  /\ probe' = [endpoint |-> "session", status |-> 200, sessionId |-> SessionSid(hd),
               historyLength |-> Len(SessionHistory(SessionSid(hd)))]
  /\ UNCHANGED <<config, index, store, req, SESSIONS>>

\* POST /api/reset: SESSIONS.delete(sid), then the confirmation
SessionReset(hd, body) ==
  /\ SESSIONS' = [s \in DOMAIN SESSIONS \ {ResetSid(hd, body)} |-> SESSIONS[s]]
  /\ probe' = [endpoint |-> "reset", status |-> 200, sessionId |-> ResetSid(hd, body),
               historyLength |-> 0]
  /\ UNCHANGED <<config, index, store, req>>

InitSessions ==
  /\ VECTORS = Corpus
  /\ redis = TRUE
  /\ FRONTEND_GREETS = TRUE
  /\ MODEL_SET = {}
  /\ MODEL_ALIASES = <<>>
  /\ MODEL_INIT_DONE = FALSE
  /\ store = [sid \in SessionIds |-> <<>>]
  /\ req = [r \in Reqs |-> IdleRequest]
  /\ SESSIONS = <<>>
  /\ probe = NoProbe

NextSessions ==
  \/ \E r \in Reqs, in \in SessionInputs, hd \in SessionHeaders : Receive(r, in, hd)
  \/ \E r \in Reqs : HistoryLoaded(r)
  \/ \E r \in Reqs, err \in Failures : EmbedFails(r, err)
  \/ \E r \in Reqs, qVec \in EmbedValues : EmbedReturns(r, qVec)
  \/ \E r \in Reqs, err \in Failures : GenerateFails(r, err)
  \/ \E r \in Reqs, text \in GeneratedTexts : GenerateReturns(r, text)
  \/ \E r \in Reqs : SaveUserTurn(r)
  \/ \E r \in Reqs : SaveAssistantTurn(r)
  \/ \E hd \in ProbeHeaders : SessionGet(hd)
  \/ \E hd \in ProbeHeaders, body \in ResetBodies : SessionReset(hd, body)

SpecSessions == InitSessions /\ [][NextSessions]_vars

(***************************************************************************)
(* Properties                                                              *)
(***************************************************************************)
\* the response of request r has been sent
Sent(r) == req[r].pc = "done"
\* request r passed the validation of lines 837-839
Validated(r) == req[r].pc \notin {"idle"} /\ req[r].branch # "invalid"
\* the ranking of lines 879-884 has run for request r
Ranked(r) == Len(req[r].qVec) > 0
\* the turns of request r in the store, in the order they were appended
TurnsOf(r) ==
  IF req[r].sid \in SessionIds THEN SelectSeq(store[req[r].sid], LAMBDA t : t.by = r) ELSE <<>>
\* the turns of request r over all sessions
NoTurnsOf(r) == \A sid \in SessionIds : \A i \in DOMAIN store[sid] : store[sid][i].by # r
TopScore(r) == IF Len(req[r].candidates) > 0 THEN req[r].candidates[1].score ELSE 0
CandidateIdx(r) == { req[r].candidates[p].idx : p \in DOMAIN req[r].candidates }
Modes == {"english", "hinglish"}
ContactDetails == { contactLine, "9350513789", "grouphca.com" }
HasContactDetails(text) == \E d \in ContactDetails : includes(text, d)

\* C1: when the retrieval of a request is passable with a non-empty context and the
\* generation returns a text that contains "Please contact our sales team", neither
\* the answer sent to the client nor the assistant turn saved for the request
\* contains that phrase.
C1_NoLeak ==
  \A r \in Reqs :
    ( /\ req[r].branch = "answer"
      /\ req[r].passable
      /\ Len(trim(req[r].context)) > 0
      /\ includes(req[r].generated, contactLine) )
    => /\ ~includes(req[r].reply, contactLine)
       /\ Sent(r) => ~includes(req[r].response.text, contactLine)
       /\ \A i \in DOMAIN TurnsOf(r) :
            TurnsOf(r)[i].role = "assistant" => ~includes(TurnsOf(r)[i].text, contactLine)

\* C1 happens: a generated contact fallback was answered and its assistant turn saved
C1_Witness ==
  \E r \in Reqs :
    /\ Sent(r) /\ req[r].branch = "answer" /\ req[r].passable
    /\ includes(req[r].generated, contactLine)
    /\ req[r].response.status = 200
    /\ Len(TurnsOf(r)) = 2 /\ TurnsOf(r)[2].role = "assistant"

\* C2: once the response of a validated request is sent, with a session store
\* configured, the store holds exactly two turns of the request: its user turn, then
\* its assistant turn.
C2_TwoTurnsPerExchange ==
  \A r \in Reqs :
    (Sent(r) /\ Validated(r) /\ redis)
    => /\ Len(TurnsOf(r)) = 2
       /\ TurnsOf(r)[1].role = "user"
       /\ TurnsOf(r)[2].role = "assistant"

\* the contact keywords of the cascade
ContactKeywords == {"contact", "phone", "email", "address", "support", "branch"}
HasContactKeyword(q) == \E k \in ContactKeywords : includes(toLowerCase(q), k)
ContactQueries == { q \in Queries : HasContactKeyword(q) }

\* C3: a message that holds a contact keyword is never answered as small talk and
\* never reaches the generation engine, even when it begins with a greeting.
C3_ContactBeforeSmallTalk ==
  \A r \in Reqs :
    (Validated(r) /\ req[r].q \in ContactQueries)
    => /\ req[r].branch # "smalltalk"
       /\ req[r].genCalls = 0

\* some alias of a sticky entity is in the text of a top-K candidate: kw of the
\* candidate counts them
AliasInTopK(r) == \E p \in DOMAIN req[r].candidates : req[r].candidates[p].kw > 0

\* C4: retrieval passes if and only if the score of the top candidate is at least
\* MIN_OK_SCORE minus the margin, or an alias of a sticky entity is in the text of
\* one of the top-K candidates.
C4_PassableIff ==
  \A r \in Reqs :
    Ranked(r) =>
      (req[r].passable <=> (TopScore(r) >= MIN_OK_SCORE - PASS_MARGIN \/ AliasInTopK(r)))

\* the entries of the corpus whose text contains "DY-CS3000"
CS3000Entries == { i \in DOMAIN VECTORS : includes(EntryText(VECTORS[i]), "DY-CS3000") }
\* the scenario of the entity lock: the query "cs3000 price", ranked, with a cosine
\* similarity below MIN_OK_SCORE for every entry
LowCosineCS3000(r) ==
  /\ req[r].q = "cs3000 price"
  /\ Ranked(r)
  /\ \A i \in DOMAIN VECTORS : cosineSim(req[r].qVec, VECTORS[i].embedding) < MIN_OK_SCORE
ScoreOf(r, i) == ScoredEntry(VECTORS, i, req[r].qVec, req[r].sticky, MODEL_ALIASES).score
\* the entries other than i whose composite score is at least that of i
Rivals(r, i) ==
  LET own == ScoreOf(r, i) IN { j \in DOMAIN VECTORS \ {i} : ScoreOf(r, j) >= own }

\* C5 as stated: in the scenario, retrieval passes and every entry that contains
\* "DY-CS3000" is among the top-K candidates.
C5_EntityLockAlways ==
  \A r \in Reqs :
    LowCosineCS3000(r) =>
      \A i \in CS3000Entries : req[r].passable /\ i \in CandidateIdx(r)

\* C5: in the scenario, retrieval passes and an entry that contains "DY-CS3000" is
\* among the top-K candidates, provided fewer than TOP_K other entries have a
\* composite score at least as high as that entry.
C5_EntityLockInTopK ==
  \A r \in Reqs :
    LowCosineCS3000(r) =>
      \A i \in CS3000Entries :
        Cardinality(Rivals(r, i)) < TOP_K => (req[r].passable /\ i \in CandidateIdx(r))

\* C5 happens: the entry passes on the entity lock alone, below the score threshold
C5_Witness ==
  \E r \in Reqs :
    /\ LowCosineCS3000(r)
    /\ \E i \in CS3000Entries : Cardinality(Rivals(r, i)) < TOP_K /\ i \in CandidateIdx(r)
    /\ TopScore(r) < MIN_OK_SCORE - PASS_MARGIN
    /\ req[r].passable /\ req[r].genCalls = 1

\* C6: when the retrieval of a request is not passable, the reply is the
\* "be more specific" tip in the mode of the request, it holds no contact details,
\* and the generation engine is never called for the request.
C6_NotPassableTip ==
  \A r \in Reqs :
    ( /\ Ranked(r)
      /\ TopScore(r) < MIN_OK_SCORE - PASS_MARGIN
      /\ ~ModelFoundInTop(VECTORS, req[r].candidates, req[r].sticky) )
    => /\ req[r].genCalls = 0
       /\ req[r].pc \in {"saveUser", "saveAssistant", "done"}
       /\ req[r].branch = "tip"
       /\ req[r].reply = SpecificTip(req[r].mode)
       /\ ~HasContactDetails(req[r].reply)
       /\ Sent(r) => req[r].response = [status |-> 200, body |-> "answer", text |-> req[r].reply]

\* C6 happens: a retrieval that is not passable was answered
C6_Witness ==
  \E r \in Reqs :
    /\ Sent(r) /\ Ranked(r) /\ ~req[r].passable
    /\ TopScore(r) < MIN_OK_SCORE - PASS_MARGIN
    /\ req[r].branch = "tip" /\ req[r].genCalls = 0

\* C7: the answer of a request that reached the generation is never the empty
\* string: an empty generated text is answered with the nudge of the mode when the
\* context is not empty, and the contact message is answered only when the context is
\* empty.
C7_NeverBlank ==
  \A r \in Reqs :
    req[r].branch = "answer" =>
      /\ req[r].genCalls = 1
      /\ req[r].reply # ""
      /\ (req[r].generated = "" /\ Len(trim(req[r].context)) > 0)
           => req[r].reply = (IF req[r].mode = "hinglish"
                              THEN "Main context se details nikal raha hoon-please model/feature thoda aur specific batayein."
                              ELSE "I'm using the knowledge base-please specify the model/feature you need.")
      /\ req[r].reply = ContactMessage => trim(req[r].context) = ""
      /\ Sent(r) => req[r].response.text = req[r].reply

\* C7 happens: the generation returned the empty text and the request was answered
C7_Witness ==
  \E r \in Reqs :
    /\ Sent(r) /\ req[r].branch = "answer" /\ req[r].generated = ""
    /\ Len(trim(req[r].context)) > 0
    /\ req[r].response.status = 200

\* the queries that handleSmallTalkAll takes for a greeting of kind hello, morning,
\* afternoon or evening
GreetingQueries ==
  { q \in Queries :
      \/ QuickKind(trim(q)) \in Greetings
      \/ QuickKind(trim(q)) = "" /\ smallTalkMatch(trim(q)) \in Greetings }
FirstTurnGreeting(r) ==
  /\ Sent(r) /\ req[r].first /\ FRONTEND_GREETS
  /\ req[r].q \in GreetingQueries
MinimalAssistOf(r) ==
  IF ModeOf(req[r].q) = "hinglish" THEN "Kaise madad kar sakta hoon?" ELSE "How can I assist you?"

\* C8 as stated: a first-turn greeting with FRONTEND_GREETS enabled is answered with
\* the minimal-assist prompt, without an embedding or generation call, and the
\* history gains exactly one user turn and one assistant turn.
C8_FirstTurnGreetingAlwaysSaved ==
  \A r \in Reqs :
    FirstTurnGreeting(r) =>
      /\ req[r].response = [status |-> 200, body |-> "answer", text |-> MinimalAssistOf(r)]
      /\ req[r].embedCalls = 0 /\ req[r].genCalls = 0
      /\ Len(TurnsOf(r)) = 2
      /\ TurnsOf(r)[1].role = "user" /\ TurnsOf(r)[2].role = "assistant"

\* C8: a first-turn greeting with FRONTEND_GREETS enabled is answered with the
\* minimal-assist prompt, without an embedding or generation call; when a session
\* store is configured the history gains exactly one user turn and one assistant
\* turn, and without one it gains none.
C8_FirstTurnGreeting ==
  \A r \in Reqs :
    FirstTurnGreeting(r) =>
      /\ req[r].response = [status |-> 200, body |-> "answer", text |-> MinimalAssistOf(r)]
      /\ req[r].embedCalls = 0 /\ req[r].genCalls = 0
      /\ redis => /\ Len(TurnsOf(r)) = 2
                  /\ TurnsOf(r)[1] = [role |-> "user", text |-> req[r].q, by |-> r]
                  /\ TurnsOf(r)[2] = [role |-> "assistant", text |-> MinimalAssistOf(r), by |-> r]
      /\ ~redis => NoTurnsOf(r)

\* C8 happens: "hi" on a first turn was answered and saved
C8_Witness ==
  \E r \in Reqs :
    /\ FirstTurnGreeting(r) /\ req[r].q = "hi" /\ redis
    /\ Len(TurnsOf(r)) = 2

\* request r arrives with no message and isFirstTurn unset
ArrivesMalformed(r) ==
  /\ req[r].pc = "idle" /\ req'[r].pc # "idle"
  /\ req'[r].q = "" /\ ~req'[r].first

\* C9: a request with no message on a non-first turn is answered at once with a 400
\* error response; history is neither read nor written, no embedding or generation
\* call is made, the model-token index stays as it is, and nothing happens for the
\* request afterwards.
C9_MalformedRejected ==
  [][ \A r \in Reqs :
        /\ ArrivesMalformed(r) =>
             /\ req'[r].pc = "done"
             /\ req'[r].response = [status |-> 400, body |-> "error",
                                    text |-> "Missing 'message' or 'question'."]
             /\ req'[r].loads = 0 /\ req'[r].embedCalls = 0 /\ req'[r].genCalls = 0
             /\ UNCHANGED <<store, index>>
        /\ (req[r].pc = "done" /\ req[r].response.status = 400) =>
             /\ req'[r] = req[r]
             /\ NoTurnsOf(r)' ]_vars

\* C9 happens: a malformed request was rejected
C9_Witness ==
  \E r \in Reqs :
    /\ Sent(r) /\ req[r].q = "" /\ ~req[r].first
    /\ req[r].response.status = 400

\* C10 as stated: with no corpus loaded every validated request is answered with the
\* "Embeddings not loaded" error, never with the tip, and no embedding or generation
\* call is made.
C10_NoCorpusAlwaysUnavailable ==
  \A r \in Reqs :
    (Sent(r) /\ Validated(r) /\ Len(VECTORS) = 0)
    => /\ req[r].response = [status |-> 500, body |-> "error", text |-> NoCorpusMessage]
       /\ req[r].embedCalls = 0 /\ req[r].genCalls = 0

\* C10: with no corpus loaded no embedding or generation call is made and no reply
\* is the tip; every validated request that small talk does not answer is answered
\* with the 500 "Embeddings not loaded" error.
C10_NoCorpusUnavailable ==
  \A r \in Reqs :
    Len(VECTORS) = 0 =>
      /\ req[r].embedCalls = 0 /\ req[r].genCalls = 0
      /\ req[r].pc \notin {"embed", "gen"}
      /\ \A m \in Modes : req[r].reply # SpecificTip(m)
      /\ (Sent(r) /\ Validated(r) /\ SmallTalkOf(req[r].q, req[r].first) = {})
           => req[r].response =
                [status |-> 500, body |-> "error",
                 text |-> "Embeddings not loaded on server. Add data/index.json (npm run embed) and redeploy."]

\* C10 happens: a question was answered with no corpus loaded
C10_Witness ==
  \E r \in Reqs :
    /\ Len(VECTORS) = 0 /\ Sent(r) /\ req[r].q = "cs3000 price"
    /\ req[r].response.status = 500

\* the embedding call of request r rejected, or resolved with an empty vector
EmbeddingUnavailable(r) ==
  /\ req[r].embedCalls = 1
  /\ \/ req[r].branch = "embedfail"
     \/ req[r].branch = "error" /\ req[r].genCalls = 0

\* C11: when the embedding call of a request rejects or resolves with an empty
\* vector, no entry is ranked, the generation engine is not called, and the response
\* is the deterministic "Embedding failed" message, whatever the failure was.
C11_EmbeddingUnavailable ==
  \A r \in Reqs :
    (Sent(r) /\ EmbeddingUnavailable(r))
    => /\ req[r].candidates = <<>>
       /\ req[r].genCalls = 0
       /\ req[r].response = [status |-> 500, body |-> "error", text |-> EmbeddingFailedMessage]

\* C12: a failure of the generation call reaches the user only after more than one
\* attempt, and then as a message that is not the collaborator's own error message.
C12_GenerationRetried ==
  \A r \in Reqs :
    (Sent(r) /\ req[r].branch = "error" /\ req[r].genCalls >= 1)
    => /\ req[r].genCalls >= 2
       /\ \A err \in Failures : req[r].response.text # err.message

\* request r has called initModelIndexOnce (line 861)
Indexed(r) == req[r].embedCalls = 1

\* C13: the first call of initModelIndexOnce builds MODEL_SET and MODEL_ALIASES from
\* the corpus, and once the index is built no step of any request, sequential or
\* concurrent, changes MODEL_SET, MODEL_ALIASES or the built flag.
C13_IndexBuiltOnce ==
  [][ /\ MODEL_INIT_DONE
         => (MODEL_INIT_DONE' /\ MODEL_SET' = MODEL_SET /\ MODEL_ALIASES' = MODEL_ALIASES)
      /\ (~MODEL_INIT_DONE /\ MODEL_INIT_DONE')
         => (MODEL_SET' = BuildModelSet(VECTORS) /\ MODEL_ALIASES' = BuildAliasMap(VECTORS))
    ]_vars

\* C13 happens: two requests have both called initModelIndexOnce, the second while the
\* first was still running, and the index is the non-empty one built from the corpus
C13_Witness ==
  /\ \A r \in Reqs : Indexed(r)
  /\ \E r \in Reqs : req[r].pc = "embed"
  /\ MODEL_INIT_DONE
  /\ MODEL_SET = BuildModelSet(VECTORS)
  /\ MODEL_SET # {}

\* the message of request r is the alias variant al of the canonical token t of the index
MessageIsAlias(r, t, al) ==
  /\ Indexed(r)
  /\ t \in MODEL_SET
  /\ al \in MODEL_ALIASES[t]
  /\ req[r].q = al

RememberMessage == "remember my city is Chennai"

\* C15: the message "remember my city is Chennai" is answered without retrieval: no
\* embedding call, no ranking and no generation call are made for it.
C15_RememberNoRetrieval ==
  \A r \in Reqs :
    (Validated(r) /\ req[r].q = RememberMessage /\ req[r].pc # "load")
    => /\ req[r].embedCalls = 0
       /\ req[r].candidates = <<>>
       /\ req[r].genCalls = 0

\* the aliases of the alias bag of the sticky entities that appear in the text of entry i
MatchingAliases(bag, i) ==
  { al \in bag : Len(al) >= 3 /\ includes(LowerText(EntryText(VECTORS[i])), al) }
\* cosine similarity plus the capped bonus, in hundredths
CompositeScore(bag, qVec, i) ==
  LET matchCount == Cardinality(MatchingAliases(bag, i))
  IN cosineSim(qVec, VECTORS[i].embedding)
       + (IF matchCount = 0 THEN 0
          ELSE IF matchCount > 3 THEN HYBRID_BONUS * 3
          ELSE HYBRID_BONUS * matchCount)
\* entry i comes before entry j in a ranking by the composite scores
RanksBefore(scores, i, j) ==
  \/ scores[i] > scores[j]
  \/ scores[i] = scores[j] /\ i < j
\* the candidates c are the top entries by RanksBefore, in that order, each with its
\* composite score (RanksBefore is a strict total order: neighbours and the last
\* candidate decide)
RankedByScores(c, scores) ==
  /\ Len(c) = (IF Len(VECTORS) < TOP_K THEN Len(VECTORS) ELSE TOP_K)
  /\ \A p \in DOMAIN c : c[p].idx \in DOMAIN VECTORS /\ c[p].score = scores[c[p].idx]
  /\ \A p \in 1..(Len(c) - 1) : RanksBefore(scores, c[p].idx, c[p + 1].idx)
  /\ \A j \in DOMAIN VECTORS \ { c[p].idx : p \in DOMAIN c } :
       RanksBefore(scores, c[Len(c)].idx, j)
RankedByComposite(c, qVec, sticky) ==
  RankedByScores(c, [i \in DOMAIN VECTORS |->
                      CompositeScore(AliasBag(sticky, MODEL_ALIASES), qVec, i)])

\* C16: whenever a request is ranked, its candidates are the TOP_K entries of highest
\* composite score (all entries when the corpus has fewer), each with score = cosine +
\* HYBRID_BONUS * min(matchCount, 3), in descending score order, equal scores in
\* corpus order.
C16_HybridScoringOrder ==
  [][ \A r \in Reqs :
        req'[r].candidates # req[r].candidates
        => RankedByComposite(req'[r].candidates, req'[r].qVec, req'[r].sticky) ]_vars

\* C16 happens: the corpus has more entries than TOP_K, the first candidate matched
\* four aliases and got the bonus of three, and the last two candidates tie
C16_Witness ==
  \E r \in Reqs :
    /\ Len(req[r].candidates) = TOP_K /\ Len(VECTORS) > TOP_K
    /\ req[r].candidates[1].kw = 4
    /\ req[r].candidates[1].score = req[r].candidates[1].cos + 3 * HYBRID_BONUS
    /\ req[r].candidates[TOP_K].score = req[r].candidates[TOP_K - 1].score
    /\ req[r].candidates[TOP_K].idx > req[r].candidates[TOP_K - 1].idx

\* C17: no entry with empty text is among the ranked candidates of a request, and no
\* context block is built from one.
C17_EmptyTextExcluded ==
  \A r \in Reqs :
    /\ \A p \in DOMAIN req[r].candidates :
         EntryText(VECTORS[req[r].candidates[p].idx]) # ""
    /\ ~includes(req[r].context, "] undefined")

\* request r ended in the catch with an exception thrown by the index build
FailedInBuild(r) == Sent(r) /\ req[r].branch = "error" /\ req[r].embedCalls = 0

\* C18: a request that failed with an exception in the first index build leaves
\* nothing behind: a request with the same body and the same loaded history ends as
\* the failed one did, which is how it would end had the failed one never happened
\* (it would then be the first to build the index).
C18_FailureLeavesNoTrace ==
  \A r1, r2 \in Reqs :
    ( /\ FailedInBuild(r1)
      /\ Sent(r2)
      /\ req[r2].q = req[r1].q /\ req[r2].first = req[r1].first
      /\ req[r2].history = req[r1].history )
    => /\ req[r2].response = req[r1].response
       /\ req[r2].embedCalls = req[r1].embedCalls

\* C19: the turns that /api/ask has recorded for a session are the history that the
\* session endpoints hold for it: GET /api/session reports as many messages as the
\* store has turns, and what POST /api/reset clears is what /api/ask loads.
C19_SharedSessionState ==
  \A sid \in SessionIds : Len(SessionHistory(sid)) = Len(store[sid])

\* the value of the cookie named sid, "" when there is none
SidCookie(cookie) == CookieMatch(cookie, "sid", TRUE)
\* the session key as the derivation is specified
SessionKeyAsSpecified(hd) ==
  IF SessionHeader(hd) # "" THEN slice(SessionHeader(hd), 100)
  ELSE IF SidCookie(hd.cookie) # "" THEN slice(SidCookie(hd.cookie), 100)
  ELSE Or(hd.forwardedFor, Or(hd.remoteAddress, "anon")) \o ":" \o hd.userAgent

\* C20: the session key of a request is its session header cut to 100 characters when
\* one is sent, otherwise the value of its sid cookie cut to 100 characters, otherwise
\* its network address, ":" and its user agent.
C20_SessionKeyDerivation ==
  \A r \in Reqs :
    (Validated(r) /\ req[r].pc # "idle") => req[r].sid = SessionKeyAsSpecified(req[r].headers)

\* the tokens that the metadata of the corpus brings and its texts do not
MetaOnlyTokens ==
  UNION { MetaTokens(VECTORS[i]) \ MinedTokens(EntryText(VECTORS[i])) : i \in DOMAIN VECTORS }

\* C21: in every state the keys of MODEL_ALIASES are the tokens of MODEL_SET, and the
\* alias set of each token holds the token itself, for mined and for metadata tokens.
C21_IndexWellFormed ==
  /\ DOMAIN MODEL_ALIASES = MODEL_SET
  /\ \A t \in MODEL_SET : t \in MODEL_ALIASES[t]

\* C21 happens: the index is built and holds a token that only metadata brought, next
\* to a mined token that has more aliases than itself
C21_Witness ==
  /\ MODEL_INIT_DONE
  /\ \E t \in MODEL_SET : t \in MetaOnlyTokens /\ MODEL_ALIASES[t] = {t}
  /\ \E t \in MODEL_SET : t \notin MetaOnlyTokens /\ MODEL_ALIASES[t] # {t}

\* the roles of the turns that request r appended to the list of session sid, in order
RolesOf(sid, r) ==
  LET turns == SelectSeq(store[sid], LAMBDA t : t.by = r)
  IN [i \in DOMAIN turns |-> turns[i].role]

\* C22: in the list of every session, the turns of one request are none, its user
\* turn, or its user turn followed later by its assistant turn, whatever the
\* interleaving with the other requests of the session.
C22_UserBeforeAssistant ==
  \A sid \in SessionIds : \A r \in Reqs :
    RolesOf(sid, r) \in { <<>>, <<"user">>, <<"user", "assistant">> }

\* C22 happens: two requests of one session interleaved, and the two turns of the
\* first are not adjacent in the list
C22_Witness ==
  \E sid \in SessionIds :
    /\ Len(store[sid]) = 4
    /\ store[sid][1].by = 1 /\ store[sid][2].by = 2
    /\ store[sid][3].by = 1 /\ store[sid][4].by = 2
    /\ RolesOf(sid, 1) = <<"user", "assistant">>

\* llm.generateContent has been called for request r
Generating(r) == req[r].genCalls > 0

\* C23: the generation engine is called at most once for a request, and only for a
\* request whose message matched no small talk, with a non-empty corpus, after its one
\* embedding call returned a non-empty vector and its retrieval was passable; the
\* context of the call has one block per candidate, between 1 and TOP_K of them.
C23_GenerationGated ==
  \A r \in Reqs :
    /\ req[r].genCalls <= 1
    /\ Generating(r)
       => /\ SmallTalkOf(req[r].q, req[r].first) = {}
          /\ Len(VECTORS) > 0
          /\ req[r].embedCalls = 1 /\ Len(req[r].qVec) > 0
          /\ req[r].passable
          /\ Passable(VECTORS, req[r].candidates, req[r].sticky)
          /\ Len(req[r].candidates) >= 1 /\ Len(req[r].candidates) <= TOP_K
          /\ req[r].context = BuildContext(VECTORS, req[r].candidates, 1)

\* C23 happens: the generation call of a request is in flight with TOP_K blocks
C23_Witness ==
  \E r \in Reqs :
    /\ req[r].pc = "gen" /\ req[r].genCalls = 1
    /\ Len(req[r].candidates) = TOP_K
    /\ startsWith(req[r].context, "[1] ")

\* request r is a first-turn request with FRONTEND_GREETS enabled whose trimmed message
\* is empty or made only of "?", ".", "!" and whitespace, and small talk has run for it
FirstTurnBlank(r) ==
  /\ Validated(r) /\ req[r].pc # "load"
  /\ req[r].first /\ FRONTEND_GREETS
  /\ IsBlank(req[r].q)

\* C24: a first-turn request with FRONTEND_GREETS enabled and a blank message gets the
\* minimal-assist prompt as its reply, and no embedding or generation call is made
\* for it.
C24_BlankFirstTurn ==
  \A r \in Reqs :
    FirstTurnBlank(r)
    => /\ req[r].reply = MinimalAssistOf(r)
       /\ req[r].embedCalls = 0 /\ req[r].genCalls = 0

====
